---- MODULE Spec2Model ----
(***************************************************************************)
(* Tool-orchestration agents of the repository:                            *)
(*   - 27_MCP_ReAct_Agent.py   react_agent and its two local tools         *)
(*   - mcp_client.py           decision -> MCP tool call -> synthesis      *)
(*   - mcp_server.py           the FastAPI tool endpoints                  *)
(*   - mcp_langchain_agent.py, weather_mcp_client*.py  SSE client sessions *)
(* Each program is a separate process; `running` says which one is live.   *)
(* Texts are sequences of tokens; a substring test is a token test.        *)
(***************************************************************************)
EXTENDS Integers, Sequences, FiniteSets, TLC

VARIABLES running, agent, cli, srv, sess

vars == <<running, agent, cli, srv, sess>>

(* ------------------------------ bounds --------------------------------- *)

\* prose tokens the model may put before / after its JSON object
MaxCommentary == 1
\* queries one launched program answers before it exits
MaxQueries == 1
\* requests the server is sent in one run
MaxRequests == 2

(* ------------------------------ texts ---------------------------------- *)

NoValue == "<none>"

LB == [k |-> "{", v |-> ""]
RB == [k |-> "}", v |-> ""]
ProseTok == [k |-> "prose", v |-> ""]
Field(key, val) == [k |-> key, v |-> val]

Prose(n) == [i \in 1..n |-> ProseTok]

\* what the user may type (already stripped)
Queries == {"weather in Paris", "Weather service error"}

\* topics / cities the model may name
TopicVals == {"Paris", "paris", "Weather service error"}

\* tool names the model may emit; "translate" is a name no client knows
ToolVals == {"weather", "wikipedia", "time", "translate"}

FieldSeqs ==
    {<< >>}
    \cup {<<Field("tool", t)>> : t \in ToolVals \cup {""}}
    \cup {<<Field("topic", p)>> : p \in TopicVals}
    \cup {<<Field("tool", t), Field("topic", p)>> : t \in ToolVals, p \in TopicVals}

\* the texts a decision completion may return
DecisionTexts ==
    {Prose(a) \o <<LB>> \o f \o <<RB>> \o Prose(b) :
        a \in 0..MaxCommentary, b \in 0..MaxCommentary, f \in FieldSeqs}
    \cup {Prose(n) : n \in 1..(MaxCommentary + 1)}
    \cup {<<Field("tool", "weather"), Field("topic", "Paris")>>,
          <<LB, Field("tool", "weather")>>,
          <<RB, Field("tool", "wikipedia"), LB>>,
          <<LB, Field("tool", "weather"), RB, LB, Field("tool", "wikipedia"), RB>>}

\* Python's `phrase in text` for the phrases the code looks for
Contains(text, phrase) == \E i \in DOMAIN text : text[i] = phrase

\* str.capitalize()
Capitalize(s) == IF s = "paris" THEN "Paris" ELSE s

\* str.strip() on the topics and cities of the model
Strip(s) == IF s = " " THEN "" ELSE s

(* ------------------- 27_MCP_ReAct_Agent.py: the tools ------------------ *)

WeatherUpstream == {"ok", "s401", "s404", "s500", "timeout", "badbody"}

\* get_weather(city) for one outcome of the upstream request
get_weather(city, hasKey, upstream) ==
    IF ~hasKey THEN <<"Weather service unavailable", "key not configured">>
    ELSE CASE upstream = "s401" ->
                <<"Weather service error", "Invalid OpenWeather API key">>
           [] upstream = "s404" ->
                <<"Weather service error", "City", city, "not found">>
           [] upstream = "s500" ->
                <<"Weather service error", "code", "upstream body">>
           [] upstream = "timeout" ->
                <<"Weather request timed out for", city>>
           [] upstream = "badbody" ->
                <<"Weather service error", "for", city, "exception text">>
           [] OTHER ->
                <<"Weather in", Capitalize(city), "description and temperature">>

WikiOutcomes(package) ==
    IF package THEN {"ok", "timeout", "error"}
    ELSE {"ok", "searchok", "notfound", "timeout", "error"}

\* get_wikipedia_summary(topic) for one outcome of the lookup
get_wikipedia_summary(topic, package, outcome) ==
    CASE outcome = "ok" -> <<"Wikipedia summary for", topic, "summary">>
      [] outcome = "searchok" /\ ~package ->
            <<"Wikipedia result for", topic, "description">>
      [] outcome = "notfound" /\ ~package ->
            <<"Could not find Wikipedia information for", topic>>
      [] outcome = "timeout" -> <<"Wikipedia request timed out for", topic>>
      [] OTHER -> <<"Wikipedia Error", "exception text">>

\* call_llm(messages): the completion's text, or the error string
LlmError == <<Field("LLM Error", ""), ProseTok>>

\* a completion that succeeded at the synthesis step
LlmAnswer == <<Field("answer", "")>>

\* re.search(r'"<key>":\s*"([^"]+)"', text): the first non-empty value
RegexField(text, key) ==
    LET hits == {i \in DOMAIN text : text[i].k = key /\ text[i].v # ""}
    IN IF hits = {} THEN NoValue
       ELSE text[CHOOSE i \in hits : \A j \in hits : i <= j].v

\* lines 227-228: the defaults when the pattern is not found
ExtractTool(text) ==
    IF RegexField(text, "tool") = NoValue THEN "wikipedia"
    ELSE RegexField(text, "tool")

ExtractTopic(text, query) ==
    IF RegexField(text, "topic") = NoValue THEN query
    ELSE RegexField(text, "topic")

\* line 237: when the weather result sends react_agent to Wikipedia
FallbackPredicate(weather_result) ==
    \/ Contains(weather_result, "Invalid OpenWeather API key")
    \/ Contains(weather_result, "Weather service error")

Call(fn, arg) == [fn |-> fn, arg |-> arg]

\* the tools named in reasoning_prompt (lines 198-200)
available_tools(hasKey) ==
    IF hasKey THEN {"weather", "wikipedia"} ELSE {"wikipedia"}

\* the timeout each external call of the agent is given in the source:
\* requests.get(..., timeout=10) in get_weather and in the REST path of
\* get_wikipedia_summary; none is passed to wikipedia.summary (line 137) or
\* to client.chat.completions.create (lines 183-187), which has its client's own
WaitTimeout(fn, package) ==
    CASE fn = "get_weather" -> "10s"
      [] fn = "get_wikipedia_summary" -> IF package THEN "none" ELSE "10s"
      [] OTHER -> "client default"

AgentIdle ==
    [pc |-> "off", hasKey |-> FALSE, package |-> FALSE, queries |-> 0,
     query |-> "", reasoning_response |-> << >>, tool_name |-> "",
     topic |-> "", weather_result |-> << >>, tool_output |-> << >>,
     final_prompt |-> << >>, final_answer |-> << >>, shown |-> "",
     upstream |-> "", calls |-> << >>, offered |-> {}]

\* module start: load_dotenv, the wikipedia import
AgentLaunch ==
    /\ running = "none"
    /\ \E key \in BOOLEAN, pkg \in BOOLEAN :
          agent' = [AgentIdle EXCEPT !.pc = "idle", !.hasKey = key,
                                     !.package = pkg]
    /\ running' = "agent"
    /\ UNCHANGED <<cli, srv, sess>>

\* the button handler calls react_agent(query.strip())
ReactStart ==
    /\ running = "agent" /\ agent.pc = "idle"
    /\ agent.queries < MaxQueries
    /\ \E q \in Queries :
          agent' = [AgentIdle EXCEPT !.pc = "decide", !.hasKey = agent.hasKey,
                                     !.package = agent.package,
                                     !.queries = agent.queries + 1,
                                     !.query = q]
    /\ UNCHANGED <<running, cli, srv, sess>>

\* lines 218-228: the decision completion and the two regex searches
ReactDecision ==
    /\ running = "agent" /\ agent.pc = "decide"
    /\ \E text \in DecisionTexts \cup {LlmError} :
          agent' = [agent EXCEPT
                      !.pc = "act",
                      !.reasoning_response = text,
                      !.offered = available_tools(agent.hasKey),
                      !.tool_name = ExtractTool(text),
                      !.topic = ExtractTopic(text, agent.query),
                      !.calls = Append(@, Call("call_llm", "decision"))]
    /\ UNCHANGED <<running, cli, srv, sess>>

\* the branch of lines 231-233 left out: the weather tool is run without a key
ReactNoKeyAttempt ==
    /\ running = "agent" /\ agent.pc = "act"
    /\ agent.tool_name = "weather" /\ ~agent.hasKey
    /\ agent' = [agent EXCEPT
                   !.pc = "check",
                   !.weather_result = get_weather(agent.topic, agent.hasKey, "ok"),
                   !.calls = Append(@, Call("get_weather", agent.topic))]
    /\ UNCHANGED <<running, cli, srv, sess>>

\* lines 231-233 without the notice put before the Wikipedia text
ReactNoKeyPlain ==
    /\ running = "agent" /\ agent.pc = "act"
    /\ agent.tool_name = "weather" /\ ~agent.hasKey
    /\ \E w \in WikiOutcomes(agent.package) :
          agent' = [agent EXCEPT
                      !.pc = "synth",
                      !.tool_name = "wikipedia",
                      !.tool_output =
                          get_wikipedia_summary(agent.topic, agent.package, w),
                      !.calls = Append(@, Call("get_wikipedia_summary", agent.topic))]
    /\ UNCHANGED <<running, cli, srv, sess>>

\* lines 231-233: weather asked for, no credential
ReactNoKey ==
    /\ running = "agent" /\ agent.pc = "act"
    /\ agent.tool_name = "weather" /\ ~agent.hasKey
    /\ \E w \in WikiOutcomes(agent.package) :
          agent' = [agent EXCEPT
                      !.pc = "synth",
                      !.tool_name = "wikipedia",
                      !.tool_output =
                          <<"Weather service unavailable", "general information about",
                            agent.topic>>
                          \o get_wikipedia_summary(agent.topic, agent.package, w),
                      !.calls = Append(@, Call("get_wikipedia_summary", agent.topic))]
    /\ UNCHANGED <<running, cli, srv, sess>>

\* lines 234-235: the weather tool is run
ReactWeather ==
    /\ running = "agent" /\ agent.pc = "act"
    /\ agent.tool_name = "weather" /\ agent.hasKey
    /\ \E up \in WeatherUpstream :
          agent' = [agent EXCEPT
                      !.pc = "check",
                      !.upstream = up,
                      !.weather_result = get_weather(agent.topic, agent.hasKey, up),
                      !.calls = Append(@, Call("get_weather", agent.topic))]
    /\ UNCHANGED <<running, cli, srv, sess>>

\* a fallback that tries Wikipedia a second time when the first lookup failed
ReactFallbackTwice ==
    /\ running = "agent" /\ agent.pc = "check"
    /\ FallbackPredicate(agent.weather_result)
    /\ \E w \in WikiOutcomes(agent.package) :
          agent' = [agent EXCEPT
                      !.pc = "synth",
                      !.tool_name = "wikipedia (fallback)",
                      !.tool_output =
                          <<"Weather service error.", "general information about",
                            agent.topic>>
                          \o get_wikipedia_summary(agent.topic, agent.package, w),
                      !.calls =
                          IF w = "ok"
                          THEN Append(@, Call("get_wikipedia_summary", agent.topic))
                          ELSE @ \o <<Call("get_wikipedia_summary", agent.topic),
                                      Call("get_wikipedia_summary", agent.topic)>>]
    /\ UNCHANGED <<running, cli, srv, sess>>

\* a fallback that looks the whole query up instead of the topic
ReactFallbackQuery ==
    /\ running = "agent" /\ agent.pc = "check"
    /\ FallbackPredicate(agent.weather_result)
    /\ \E w \in WikiOutcomes(agent.package) :
          agent' = [agent EXCEPT
                      !.pc = "synth",
                      !.tool_name = "wikipedia (fallback)",
                      !.tool_output =
                          <<"Weather service error.", "general information about",
                            agent.topic>>
                          \o get_wikipedia_summary(agent.query, agent.package, w),
                      !.calls = Append(@, Call("get_wikipedia_summary", agent.query))]
    /\ UNCHANGED <<running, cli, srv, sess>>

\* lines 237-241: the weather result matches the predicate
ReactFallback ==
    /\ running = "agent" /\ agent.pc = "check"
    /\ FallbackPredicate(agent.weather_result)
    /\ \E w \in WikiOutcomes(agent.package) :
          agent' = [agent EXCEPT
                      !.pc = "synth",
                      !.tool_name = "wikipedia (fallback)",
                      !.tool_output =
                          <<"Weather service error.", "general information about",
                            agent.topic>>
                          \o get_wikipedia_summary(agent.topic, agent.package, w),
                      !.calls = Append(@, Call("get_wikipedia_summary", agent.topic))]
    /\ UNCHANGED <<running, cli, srv, sess>>

\* lines 242-243: the weather result is kept
ReactKeepWeather ==
    /\ running = "agent" /\ agent.pc = "check"
    /\ ~FallbackPredicate(agent.weather_result)
    /\ agent' = [agent EXCEPT !.pc = "synth",
                              !.tool_output = agent.weather_result]
    /\ UNCHANGED <<running, cli, srv, sess>>

\* lines 244-245: every other tool name
ReactWikipedia ==
    /\ running = "agent" /\ agent.pc = "act"
    /\ agent.tool_name # "weather"
    /\ \E w \in WikiOutcomes(agent.package) :
          agent' = [agent EXCEPT
                      !.pc = "synth",
                      !.tool_output =
                          get_wikipedia_summary(agent.topic, agent.package, w),
                      !.calls = Append(@, Call("get_wikipedia_summary", agent.topic))]
    /\ UNCHANGED <<running, cli, srv, sess>>

\* lines 251-263 and 288-290: the synthesis completion, the answer is shown
ReactSynthesis ==
    /\ running = "agent" /\ agent.pc = "synth"
    /\ \E answer \in {LlmAnswer, LlmError} :
          agent' = [agent EXCEPT
                      !.pc = "returned",
                      !.final_prompt =
                          <<"User question:", agent.query, "Tool used:",
                            agent.tool_name, "Tool result:">> \o agent.tool_output,
                      !.final_answer = answer,
                      !.shown = "answer",
                      !.calls = Append(@, Call("call_llm", "synthesis"))]
    /\ UNCHANGED <<running, cli, srv, sess>>

\* the page waits for the next question
ReactNext ==
    /\ running = "agent" /\ agent.pc = "returned"
    /\ agent' = [agent EXCEPT !.pc = "idle"]
    /\ UNCHANGED <<running, cli, srv, sess>>

AgentExit ==
    /\ running = "agent" /\ agent.pc = "idle"
    /\ agent' = AgentIdle
    /\ running' = "none"
    /\ UNCHANGED <<cli, srv, sess>>

AgentNext ==
    \/ AgentLaunch \/ ReactStart \/ ReactDecision \/ ReactNoKey \/ ReactWeather
    \/ ReactFallback \/ ReactKeepWeather \/ ReactWikipedia \/ ReactSynthesis
    \/ ReactNext \/ AgentExit

(* ----------------------- mcp_server.py: endpoints --------------------- *)

DefaultKey == "supersecretlocalkey"
Keys == {DefaultKey, "otherkey"}

\* a request body: the one JSON field it carries
Body(field, value) == [field |-> field, value |-> value]
NoBody == Body("", "")

Request(method, path, key, body) ==
    [method |-> method, path |-> path, key |-> key, body |-> body]

\* the routes the decorators register (lines 34, 43, 48, 71, 85)
Routes ==
    {[method |-> "GET", path |-> << >>, handler |-> "root"],
     [method |-> "GET", path |-> <<"health">>, handler |-> "health"],
     [method |-> "POST", path |-> <<"tool", "weather">>, handler |-> "weather_tool"],
     [method |-> "POST", path |-> <<"tool", "wikipedia">>, handler |-> "wiki_tool"],
     [method |-> "GET", path |-> <<"tool", "time">>, handler |-> "time_tool"]}

\* the handler a request is routed to, or the framework's 404 / 405
RouteLookup(req) ==
    IF \E r \in Routes : r.path = req.path /\ r.method = req.method
    THEN (CHOOSE r \in Routes : r.path = req.path /\ r.method = req.method).handler
    ELSE IF \E r \in Routes : r.path = req.path THEN "405" ELSE "404"

\* an HTTPException, or a framework error answer: no ToolResponse
HttpError(status, detail) ==
    [status |-> status, kind |-> "http_error", tool |-> "", output |-> <<detail>>,
     isError |-> "absent", checks |-> 0, upcalls |-> 0]

\* ToolResponse (lines 24-26): tool and output, and no isError field
ToolResponse(tool, output) ==
    [status |-> 200, kind |-> "tool_result", tool |-> tool, output |-> output,
     isError |-> "absent", checks |-> 0, upcalls |-> 0]

InfoResponse ==
    [status |-> 200, kind |-> "info", tool |-> "", output |-> <<"running">>,
     isError |-> "absent", checks |-> 0, upcalls |-> 0]

\* check_key (lines 29-31)
check_key(x_api_key, serverKey) == x_api_key = serverKey

\* an answer with what the handler did on the way to it: the check_key calls
\* and the upstream calls it made
Did(resp, checks, upcalls) == [resp EXCEPT !.checks = checks, !.upcalls = upcalls]

\* what a handler's upstream does: the OpenWeather request, the wikipedia lookup
ServerUpstream == {"ok", "s500", "timeout", "badbody"}

\* weather_tool without the strip() of line 51
weather_tool_NoStrip(req, serverKey, owKey, upstream) ==
    IF req.body.field # "city" THEN HttpError(422, "validation error")
    ELSE IF ~check_key(req.key, serverKey)
    THEN Did(HttpError(401, "Invalid MCP server API key."), 1, 0)
    ELSE IF req.body.value = ""
    THEN Did(HttpError(400, "City required."), 1, 0)
    ELSE IF ~owKey
    THEN Did(ToolResponse("weather", <<"(mock) Weather in", req.body.value>>), 1, 0)
    ELSE IF upstream \in {"timeout", "badbody"}
    THEN Did(HttpError(500, "Internal Server Error"), 1, 1)
    ELSE Did(ToolResponse("weather", <<"Weather in", req.body.value, "description">>),
             1, 1)

\* weather_tool (lines 48-68); the framework validates the body as a
\* WeatherRequest before the function is entered
weather_tool(req, serverKey, owKey, upstream) ==
    IF req.body.field # "city" THEN HttpError(422, "validation error")
    ELSE IF ~check_key(req.key, serverKey)
    THEN Did(HttpError(401, "Invalid MCP server API key."), 1, 0)
    ELSE IF Strip(req.body.value) = ""
    THEN Did(HttpError(400, "City required."), 1, 0)
    ELSE IF ~owKey
    THEN Did(ToolResponse("weather", <<"(mock) Weather in", Strip(req.body.value)>>),
             1, 0)
    ELSE CASE upstream = "timeout" ->
                Did(HttpError(500, "Internal Server Error"), 1, 1)
           [] upstream = "badbody" ->
                Did(HttpError(500, "Internal Server Error"), 1, 1)
           [] upstream = "s500" ->
                Did(ToolResponse("weather", <<"OpenWeather error", "upstream body">>),
                    1, 1)
           [] OTHER ->
                Did(ToolResponse("weather",
                                 <<"Weather in", Strip(req.body.value), "description">>),
                    1, 1)

\* wiki_tool (lines 71-82)
wiki_tool(req, serverKey, upstream) ==
    IF req.body.field # "topic" THEN HttpError(422, "validation error")
    ELSE IF ~check_key(req.key, serverKey)
    THEN Did(HttpError(401, "Invalid MCP server API key."), 1, 0)
    ELSE IF Strip(req.body.value) = ""
    THEN Did(HttpError(400, "Topic required."), 1, 0)
    ELSE IF upstream = "ok"
    THEN Did(ToolResponse("wikipedia",
                          <<"Wikipedia summary for", Strip(req.body.value), "summary">>),
             1, 1)
    ELSE Did(ToolResponse("wikipedia", <<"Wikipedia lookup failed", "exception text">>),
             1, 1)

\* time_tool (lines 85-89)
time_tool(req, serverKey) ==
    IF ~check_key(req.key, serverKey)
    THEN Did(HttpError(401, "Invalid MCP server API key."), 1, 0)
    ELSE Did(ToolResponse("time", <<"Local system time", "now">>), 1, 0)

\* the answer the server gives one request
ServerRespond(req, serverKey, owKey, upstream) ==
    LET h == RouteLookup(req)
    IN CASE h = "weather_tool" -> weather_tool(req, serverKey, owKey, upstream)
         [] h = "wiki_tool" -> wiki_tool(req, serverKey, upstream)
         [] h = "time_tool" -> time_tool(req, serverKey)
         [] h \in {"root", "health"} -> InfoResponse
         [] h = "405" -> HttpError(405, "Method Not Allowed")
         [] OTHER -> HttpError(404, "Not Found")

\* the requests a client may send
Paths ==
    {<<"tool", "weather">>, <<"tool", "wikipedia">>, <<"tool", "time">>,
     <<"tool", "translate">>}
Bodies ==
    {NoBody, Body("city", "Paris"), Body("city", " "), Body("topic", "Paris"),
     Body("topic", " ")}
Requests ==
    {Request(m, p, k, b) :
        m \in {"GET", "POST"}, p \in Paths, k \in Keys \cup {NoValue}, b \in Bodies}

\* the tool a request names: the last segment of a /tool/<name> path
NamedTool(req) ==
    IF Len(req.path) = 2 /\ req.path[1] = "tool" THEN req.path[2] ELSE NoValue

RegisteredTools == {r.path[2] : r \in {x \in Routes : Len(x.path) = 2}}

ServerOff ==
    [pc |-> "off", key |-> DefaultKey, owKey |-> FALSE, handled |-> 0,
     req |-> Request("", << >>, "", NoBody), upstream |-> "",
     resp |-> HttpError(0, "")]

\* module start: load_dotenv, the app is built and serves
ServerLaunch ==
    /\ running = "none"
    /\ \E k \in Keys, ow \in BOOLEAN :
          srv' = [ServerOff EXCEPT !.pc = "up", !.key = k, !.owKey = ow]
    /\ running' = "server"
    /\ UNCHANGED <<agent, cli, sess>>

\* one request is received, handled and answered
ServerHandle ==
    /\ running = "server" /\ srv.pc = "up"
    /\ srv.handled < MaxRequests
    /\ \E req \in Requests, up \in ServerUpstream :
          srv' = [srv EXCEPT
                    !.handled = @ + 1,
                    !.req = req,
                    !.upstream = up,
                    !.resp = ServerRespond(req, srv.key, srv.owKey, up)]
    /\ UNCHANGED <<running, agent, cli, sess>>

ServerStop ==
    /\ running = "server" /\ srv.pc = "up"
    /\ srv' = ServerOff
    /\ running' = "none"
    /\ UNCHANGED <<agent, cli, sess>>

ServerNext == ServerLaunch \/ ServerHandle \/ ServerStop

(* ------------------------ mcp_client.py: pipeline ---------------------- *)

\* MCP_SERVER_URL (line 12) as the path it puts before /tool/<name>:
\* the default ends in /sse
DefaultUrlPath == <<"sse">>
UrlPaths == {DefaultUrlPath, << >>}

\* index of the first '{' and of the last '}', 0 when there is none
FirstLB(text) ==
    LET hits == {i \in DOMAIN text : text[i] = LB}
    IN IF hits = {} THEN 0 ELSE CHOOSE i \in hits : \A j \in hits : i <= j

LastRB(text) ==
    LET hits == {i \in DOMAIN text : text[i] = RB}
    IN IF hits = {} THEN 0 ELSE CHOOSE i \in hits : \A j \in hits : i >= j

\* json.loads of a span: an object of string fields and nothing else
JsonDecodable(span) ==
    /\ Len(span) >= 2
    /\ span[1] = LB /\ span[Len(span)] = RB
    /\ \A i \in 2..(Len(span) - 1) : span[i].k \in {"reasoning", "tool", "topic"}

\* the value json.loads keeps for a key: the last one given
JsonValue(span, key) ==
    LET hits == {i \in DOMAIN span : span[i].k = key}
    IN IF hits = {} THEN NoValue
       ELSE span[CHOOSE i \in hits : \A j \in hits : i >= j].v

\* the tools listed in the decision prompt (lines 24-27)
PromptTools == {"weather", "wikipedia", "time"}

\* the timeout of the request behind each step of the main pipeline
\* (lines 52, 74-84, 110)
StepTimeout(step) == IF step = "tool" THEN "10s" ELSE "20s"

NoDecision == [raised |-> "", tool |-> NoValue, topic |-> NoValue]

\* a parser that stops at the first '}' instead of the last
ParseDecisionFirstObject(text) ==
    LET jstart == FirstLB(text)
        closes == {i \in DOMAIN text : text[i] = RB /\ i > jstart}
        jend == IF closes = {} THEN 0
                ELSE CHOOSE i \in closes : \A j \in closes : i <= j
        span == SubSeq(text, jstart, jend)
    IN IF jstart = 0 \/ jend = 0 THEN [NoDecision EXCEPT !.raised = "ValueError"]
       ELSE IF ~JsonDecodable(span)
       THEN [NoDecision EXCEPT !.raised = "JSONDecodeError"]
       ELSE [raised |-> "", tool |-> JsonValue(span, "tool"),
             topic |-> JsonValue(span, "topic")]

\* lines 56-66 of call_llm_for_decision: the decision, or the error re-raised
ParseDecision(text) ==
    LET jstart == FirstLB(text)
        jend == LastRB(text)
        span == SubSeq(text, jstart, jend)
    IN IF jstart = 0 \/ jend = 0 THEN [NoDecision EXCEPT !.raised = "ValueError"]
       ELSE IF ~JsonDecodable(span)
       THEN [NoDecision EXCEPT !.raised = "JSONDecodeError"]
       ELSE [raised |-> "", tool |-> JsonValue(span, "tool"),
             topic |-> JsonValue(span, "topic")]

\* what a completion request does (lines 52-55, 110-112)
LlmHttp == {"ok", "timeout", "refused", "status_error", "bad_body"}

LlmRaised(outcome) ==
    CASE outcome = "timeout" -> "Timeout"
      [] outcome = "refused" -> "ConnectionError"
      [] outcome = "status_error" -> "HTTPError"
      [] outcome = "bad_body" -> "KeyError"
      [] OTHER -> ""

\* decision.get("topic", "")
TopicOf(decision) == IF decision.topic = NoValue THEN "" ELSE decision.topic

\* lines 72-86: the request call_mcp_tool builds for a tool it knows
ToolRequest(decision, urlPath, key) ==
    CASE decision.tool = "weather" ->
            Request("POST", urlPath \o <<"tool", "weather">>, key,
                    Body("city", TopicOf(decision)))
      [] decision.tool = "wikipedia" ->
            Request("POST", urlPath \o <<"tool", "wikipedia">>, key,
                    Body("topic", TopicOf(decision)))
      [] OTHER ->
            Request("GET", urlPath \o <<"tool", "time">>, key, NoBody)

ClientTools == {"weather", "wikipedia", "time"}

\* what the connection to the tool server does
Transport == {"ok", "refused", "timeout"}

NoToolResult == [raised |-> "", sent |-> << >>, tool |-> "", output |-> << >>]

\* call_mcp_tool sending whatever name the decision holds to the server
call_mcp_tool_AnyName(decision, urlPath, key, transport, serverKey, owKey, upstream) ==
    LET name == IF decision.tool = NoValue THEN "none" ELSE decision.tool
        req == IF decision.tool \in ClientTools
               THEN ToolRequest(decision, urlPath, key)
               ELSE Request("POST", urlPath \o <<"tool", name>>, key,
                            Body("topic", TopicOf(decision)))
        resp == ServerRespond(req, serverKey, owKey, upstream)
    IN IF transport = "refused"
       THEN [NoToolResult EXCEPT !.raised = "ConnectionError", !.sent = <<req>>]
       ELSE IF transport = "timeout"
       THEN [NoToolResult EXCEPT !.raised = "Timeout", !.sent = <<req>>]
       ELSE IF resp.status >= 400
       THEN [NoToolResult EXCEPT !.raised = "HTTPError", !.sent = <<req>>]
       ELSE [raised |-> "", sent |-> <<req>>, tool |-> resp.tool,
             output |-> resp.output]

\* call_mcp_tool without its raise_for_status() calls
call_mcp_tool_NoRaise(decision, urlPath, key, transport, serverKey, owKey, upstream) ==
    IF decision.tool \notin ClientTools
    THEN [NoToolResult EXCEPT !.tool = "none", !.output = <<"No tool selected.">>]
    ELSE LET req == ToolRequest(decision, urlPath, key)
             resp == ServerRespond(req, serverKey, owKey, upstream)
         IN IF transport = "refused"
            THEN [NoToolResult EXCEPT !.raised = "ConnectionError", !.sent = <<req>>]
            ELSE IF transport = "timeout"
            THEN [NoToolResult EXCEPT !.raised = "Timeout", !.sent = <<req>>]
            ELSE [raised |-> "", sent |-> <<req>>, tool |-> resp.tool,
                  output |-> resp.output]

\* call_mcp_tool (lines 68-88): the value returned or the exception raised,
\* and the requests sent
call_mcp_tool(decision, urlPath, key, transport, serverKey, owKey, upstream) ==
    IF decision.tool \notin ClientTools
    THEN [NoToolResult EXCEPT !.tool = "none", !.output = <<"No tool selected.">>]
    ELSE LET req == ToolRequest(decision, urlPath, key)
             resp == ServerRespond(req, serverKey, owKey, upstream)
         IN IF transport = "refused"
            THEN [NoToolResult EXCEPT !.raised = "ConnectionError", !.sent = <<req>>]
            ELSE IF transport = "timeout"
            THEN [NoToolResult EXCEPT !.raised = "Timeout", !.sent = <<req>>]
            ELSE IF resp.status >= 400
            THEN [NoToolResult EXCEPT !.raised = "HTTPError", !.sent = <<req>>]
            ELSE [raised |-> "", sent |-> <<req>>, tool |-> resp.tool,
                  output |-> resp.output]

ClientOff ==
    [pc |-> "off", urlPath |-> DefaultUrlPath, key |-> DefaultKey,
     serverKey |-> DefaultKey, owKey |-> FALSE, query |-> "",
     decision |-> NoDecision, tool_resp |-> NoToolResult, final |-> << >>,
     raised |-> "", transport |-> "", resp |-> HttpError(0, ""),
     final_prompt |-> << >>, steps |-> << >>, offered |-> {}, text |-> << >>]

\* module start (lines 8-12), with the server it will talk to
ClientLaunch ==
    /\ running = "none"
    /\ \E u \in UrlPaths, k \in Keys, sk \in Keys, ow \in BOOLEAN :
          cli' = [ClientOff EXCEPT !.pc = "input", !.urlPath = u, !.key = k,
                                   !.serverKey = sk, !.owKey = ow]
    /\ running' = "client"
    /\ UNCHANGED <<agent, srv, sess>>

\* line 116
ClientInput ==
    /\ running = "client" /\ cli.pc = "input"
    /\ \E q \in Queries : cli' = [cli EXCEPT !.pc = "decide", !.query = q]
    /\ UNCHANGED <<running, agent, srv, sess>>

\* line 118: call_llm_for_decision
ClientDecision ==
    /\ running = "client" /\ cli.pc = "decide"
    /\ \E http \in LlmHttp, text \in DecisionTexts :
          LET d == IF http = "ok" THEN ParseDecision(text)
                   ELSE [NoDecision EXCEPT !.raised = LlmRaised(http)]
          IN cli' = [cli EXCEPT
                       !.steps = Append(@, "decision"),
                       !.offered = PromptTools,
                       !.text = IF http = "ok" THEN text ELSE << >>,
                       !.decision = d,
                       !.raised = d.raised,
                       !.pc = IF d.raised = "" THEN "tool" ELSE "crashed"]
    /\ UNCHANGED <<running, agent, srv, sess>>

\* a main pipeline that catches what call_mcp_tool raises and goes on
ClientToolCallCaught ==
    /\ running = "client" /\ cli.pc = "tool"
    /\ \E tr \in Transport, up \in ServerUpstream :
          LET r == call_mcp_tool(cli.decision, cli.urlPath, cli.key, tr,
                                 cli.serverKey, cli.owKey, up)
          IN cli' = [cli EXCEPT
                       !.steps = Append(@, "tool"),
                       !.text = << >>,
                       !.tool_resp = r,
                       !.transport = IF r.sent = << >> THEN "" ELSE tr,
                       !.resp = IF r.sent = << >> \/ tr # "ok" THEN cli.resp
                                ELSE ServerRespond(r.sent[1], cli.serverKey,
                                                   cli.owKey, up),
                       !.raised = r.raised,
                       !.pc = "synth"]
    /\ UNCHANGED <<running, agent, srv, sess>>

\* line 121: call_mcp_tool
ClientToolCall ==
    /\ running = "client" /\ cli.pc = "tool"
    /\ \E tr \in Transport, up \in ServerUpstream :
          LET r == call_mcp_tool(cli.decision, cli.urlPath, cli.key, tr,
                                 cli.serverKey, cli.owKey, up)
          IN cli' = [cli EXCEPT
                       !.steps = Append(@, "tool"),
                       !.text = << >>,
                       !.tool_resp = r,
                       !.transport = IF r.sent = << >> THEN "" ELSE tr,
                       !.resp = IF r.sent = << >> \/ tr # "ok" THEN cli.resp
                                ELSE ServerRespond(r.sent[1], cli.serverKey,
                                                   cli.owKey, up),
                       !.raised = r.raised,
                       !.pc = IF r.raised = "" THEN "synth" ELSE "crashed"]
    /\ UNCHANGED <<running, agent, srv, sess>>

\* line 124: call_llm_for_final_answer
ClientSynthesis ==
    /\ running = "client" /\ cli.pc = "synth"
    /\ \E http \in LlmHttp :
          cli' = [cli EXCEPT
                    !.steps = Append(@, "synthesis"),
                    !.final_prompt =
                        <<"User question:", cli.query, "Tool output:">>
                        \o cli.tool_resp.output
                        \o <<"Using the tool output, answer the user's question">>,
                    !.final = IF http = "ok" THEN LlmAnswer ELSE << >>,
                    !.raised = LlmRaised(http),
                    !.pc = IF http = "ok" THEN "done" ELSE "crashed"]
    /\ UNCHANGED <<running, agent, srv, sess>>

\* the script ends: after line 125, or with the traceback of what was raised
ClientExit ==
    /\ running = "client" /\ cli.pc \in {"done", "crashed"}
    /\ cli' = ClientOff
    /\ running' = "none"
    /\ UNCHANGED <<agent, srv, sess>>

ClientNext ==
    \/ ClientLaunch \/ ClientInput \/ ClientDecision \/ ClientToolCall
    \/ ClientSynthesis \/ ClientExit

(* ---- mcp_langchain_agent.py, weather_mcp_client*.py: SSE sessions ------ *)

SessionFns == {"_call_mcp_tool", "_read_mcp_resource", "main", "main_new"}

\* the body with the tool called before the handshake
PlanCallFirst(fn) ==
    CASE fn = "_call_mcp_tool" -> <<"call_tool", "initialize">>
      [] fn = "_read_mcp_resource" -> <<"read_resource", "initialize">>
      [] OTHER -> <<"call_tool", "initialize", "list_tools", "list_resources",
                    "read_resource">>

\* the wrappers' bodies with a second exchange in the same session
PlanTwoExchanges(fn) ==
    CASE fn = "_call_mcp_tool" -> <<"initialize", "call_tool", "call_tool">>
      [] fn = "_read_mcp_resource" -> <<"initialize", "read_resource", "read_resource">>
      [] OTHER -> <<"initialize", "list_tools", "list_resources", "call_tool",
                    "read_resource">>

\* the exchanges each function awaits inside its two `async with` blocks
Plan(fn) ==
    CASE fn = "_call_mcp_tool" -> <<"initialize", "call_tool">>
      [] fn = "_read_mcp_resource" -> <<"initialize", "read_resource">>
      [] OTHER -> <<"initialize", "list_tools", "list_resources", "call_tool",
                    "read_resource">>

\* what an awaited step does: it completes, it raises, the caller cancels
AwaitOutcomes == {"ok", "error", "cancelled"}

\* an exchange can also be answered with an error by the server: the awaited
\* call raises McpError
ExchangeOutcomes == AwaitOutcomes \cup {"rpc_error"}

\* the tool names a server's list_tools can answer with
Catalogs == {{"get_weather"}, {"get_forecast"}}

\* the name given to call_tool: the literal "get_weather" in both main
\* functions and in the get_weather wrapper that calls _call_mcp_tool
ToolName(fn, catalog) == "get_weather"

NoResult == [isError |-> FALSE, structured |-> FALSE, text |-> FALSE]
ToolResults == [isError : BOOLEAN, structured : BOOLEAN, text : BOOLEAN]

\* open / close calls in place of `async with`: an exception skips the closes
UnwindNoFinally(depth, pending) ==
    IF pending # "" THEN "ended"
    ELSE CASE depth = 2 -> "session_exit" [] depth = 1 -> "sse_exit"
           [] OTHER -> "ended"

\* where control goes when a step inside `depth` open `async with` blocks is
\* left (by return, exception or cancellation): every block's exit is run
Unwind(depth, pending) ==
    CASE depth = 2 -> "session_exit"
      [] depth = 1 -> "sse_exit"
      [] OTHER -> "ended"

NoReport == [as |-> "", from |-> ""]

\* what a function does with the result of call_tool: main_new prints
\* structuredContent, else the text blocks, under "Weather Result" (lines
\* 42-48); main pretty-prints the whole result; _call_mcp_tool raises for
\* isError and joins the text blocks otherwise (lines 34-37)
Report(fn, r) ==
    CASE fn = "main_new" ->
            [as |-> "success",
             from |-> IF r.structured THEN "structured"
                      ELSE IF r.text THEN "text" ELSE "none"]
      [] fn = "_call_mcp_tool" ->
            IF r.isError THEN [as |-> "error", from |-> "content"]
            ELSE [as |-> "success", from |-> IF r.text THEN "text" ELSE "none"]
      [] OTHER -> [as |-> "dump", from |-> "all"]

SessOff ==
    [pc |-> "off", fn |-> "", step |-> 0, stream |-> "closed",
     session |-> "none", pending |-> "", done |-> << >>, result |-> NoResult,
     opened |-> 0, catalog |-> {}, called |-> NoValue, report |-> NoReport]

Pending(outcome) ==
    CASE outcome = "cancelled" -> "CancelledError"
      [] outcome = "rpc_error" -> "McpError"
      [] OTHER -> "Exception"

\* one of the four functions is called
SessionCall ==
    /\ running = "none"
    /\ \E fn \in SessionFns : sess' = [SessOff EXCEPT !.pc = "sse_enter", !.fn = fn]
    /\ running' = "session"
    /\ UNCHANGED <<agent, cli, srv>>

\* `async with sse_client(sse_endpoint)`: the stream is opened, or it raises
SseEnter ==
    /\ running = "session" /\ sess.pc = "sse_enter"
    /\ \E o \in AwaitOutcomes :
          sess' = IF o = "ok"
                  THEN [sess EXCEPT !.pc = "session_enter", !.stream = "open"]
                  ELSE [sess EXCEPT !.pending = Pending(o),
                                    !.pc = Unwind(0, Pending(o))]
    /\ UNCHANGED <<running, agent, cli, srv>>

\* `async with ClientSession(read_stream, write_stream) as session`
SessionEnter ==
    /\ running = "session" /\ sess.pc = "session_enter"
    /\ \E o \in AwaitOutcomes :
          sess' = IF o = "ok"
                  THEN [sess EXCEPT !.pc = "body", !.step = 1, !.session = "open",
                                    !.opened = @ + 1]
                  ELSE [sess EXCEPT !.pending = Pending(o),
                                    !.pc = Unwind(1, Pending(o))]
    /\ UNCHANGED <<running, agent, cli, srv>>

\* the next awaited exchange of the body
SessionExchange ==
    /\ running = "session" /\ sess.pc = "body"
    /\ sess.step <= Len(Plan(sess.fn))
    /\ \E o \in ExchangeOutcomes, r \in ToolResults, c \in Catalogs :
          LET x == Plan(sess.fn)[sess.step]
          IN /\ x # "call_tool" => r = NoResult
             /\ (x # "list_tools" \/ o # "ok") => c = CHOOSE d \in Catalogs : TRUE
             /\ sess' = IF o = "ok"
                        THEN [sess EXCEPT !.step = @ + 1,
                                          !.done = Append(@, x),
                                          !.result = IF x = "call_tool" THEN r ELSE @,
                                          !.report = IF x = "call_tool"
                                                     THEN Report(sess.fn, r) ELSE @,
                                          !.catalog = IF x = "list_tools" THEN c ELSE @,
                                          !.called = IF x = "call_tool"
                                                     THEN ToolName(sess.fn, sess.catalog)
                                                     ELSE @]
                        ELSE [sess EXCEPT !.pending = Pending(o),
                                          !.pc = Unwind(2, Pending(o))]
    /\ UNCHANGED <<running, agent, cli, srv>>

\* the body's last statements: _call_mcp_tool raises for an isError result
\* (lines 34-35), every other function returns
SessionBodyEnd ==
    /\ running = "session" /\ sess.pc = "body"
    /\ sess.step > Len(Plan(sess.fn))
    /\ LET p == IF sess.fn = "_call_mcp_tool" /\ sess.result.isError
                THEN "RuntimeError" ELSE ""
       IN sess' = [sess EXCEPT !.pending = p, !.pc = Unwind(2, p)]
    /\ UNCHANGED <<running, agent, cli, srv>>

\* ClientSession.__aexit__
SessionExit ==
    /\ running = "session" /\ sess.pc = "session_exit"
    /\ sess' = [sess EXCEPT !.session = "closed", !.pc = Unwind(1, sess.pending)]
    /\ UNCHANGED <<running, agent, cli, srv>>

\* sse_client's exit: the connection is released
SseExit ==
    /\ running = "session" /\ sess.pc = "sse_exit"
    /\ sess' = [sess EXCEPT !.stream = "closed", !.pc = Unwind(0, sess.pending)]
    /\ UNCHANGED <<running, agent, cli, srv>>

\* the caller has the value or the exception
SessionEnd ==
    /\ running = "session" /\ sess.pc = "ended"
    /\ sess' = SessOff
    /\ running' = "none"
    /\ UNCHANGED <<agent, cli, srv>>

SessionNext ==
    \/ SessionCall \/ SseEnter \/ SessionEnter \/ SessionExchange
    \/ SessionBodyEnd \/ SessionExit \/ SseExit \/ SessionEnd

(* ------------------------------- system -------------------------------- *)

Init ==
    /\ running = "none"
    /\ agent = AgentIdle
    /\ cli = ClientOff
    /\ srv = ServerOff
    /\ sess = SessOff

Next == AgentNext \/ ServerNext \/ ClientNext \/ SessionNext

Spec == Init /\ [][Next]_vars

(* ------------------------------ properties ----------------------------- *)

ToolCalls(calls) == SelectSeq(calls, LAMBDA c : c.fn # "call_llm")
Count(calls, fn) == Cardinality({i \in DOMAIN calls : calls[i].fn = fn})

\* the tools react_agent has a branch for
AgentTools == {"weather", "wikipedia"}

\* react_agent is past its tool step
AgentActed == running = "agent" /\ agent.pc \in {"synth", "returned"}

\* the main pipeline of mcp_client is past call_mcp_tool
ClientActed == running = "client" /\ Len(cli.steps) >= 2

\* C1: a decision naming a tool the client does not know is never sent to the
\* server: call_mcp_tool returns the {tool: "none"} result and sends no
\* request, and react_agent runs get_wikipedia_summary and nothing else.
C1_UnknownToolNeverDispatched ==
    /\ (ClientActed /\ cli.decision.tool \notin ClientTools)
          => /\ cli.tool_resp.sent = << >>
             /\ cli.tool_resp.tool = "none"
             /\ cli.tool_resp.raised = ""
    /\ (AgentActed /\ ExtractTool(agent.reasoning_response) \notin AgentTools)
          => ToolCalls(agent.calls) = <<Call("get_wikipedia_summary", agent.topic)>>

C1_Witness ==
    /\ ClientActed /\ cli.decision.tool = "translate"
    /\ cli.tool_resp.tool = "none"

\* C2: when the decision text holds no decodable decision, no tool call is
\* issued for the query and the synthesis step still runs.
C2_UndecodableMeansNoTool ==
    /\ (AgentActed /\ RegexField(agent.reasoning_response, "tool") = NoValue)
          => ToolCalls(agent.calls) = << >>
    /\ (running = "client" /\ cli.decision.raised \in {"ValueError", "JSONDecodeError"})
          => cli.pc # "crashed"

\* C3: call_llm_for_decision never raises because the text could not be
\* decoded: the query goes on with a default decision.
C3_DecodeFailureRecovered ==
    /\ (running = "client" /\ cli.steps = <<"decision">>)
          => cli.raised \notin {"ValueError", "JSONDecodeError"}
    /\ (running = "agent" /\ agent.pc = "act")
          => agent.tool_name \in ToolVals

C5_BoundedCalls ==
    running = "agent" =>
        /\ Count(agent.calls, "get_wikipedia_summary") <= 1
        /\ Count(agent.calls, "get_weather") <= 1
        /\ Len(ToolCalls(agent.calls)) <= 2
        /\ Count(agent.calls, "call_llm") <= 2
        /\ agent.pc = "returned" =>
              /\ Count(agent.calls, "call_llm") = 2
              /\ agent.calls[1] = Call("call_llm", "decision")
              /\ agent.calls[Len(agent.calls)] = Call("call_llm", "synthesis")

C5_Witness ==
    /\ running = "agent" /\ agent.pc = "returned"
    /\ Len(ToolCalls(agent.calls)) = 2

\* C6: weather decided without the credential: the weather tool is not run
\* and Wikipedia is run exactly once; with the credential: the weather tool
\* is run exactly once, before any Wikipedia call.
C6_CredentialGate ==
    (running = "agent" /\ agent.pc \in {"check", "synth", "returned"}
     /\ ExtractTool(agent.reasoning_response) = "weather")
        => IF agent.hasKey
           THEN /\ ToolCalls(agent.calls)[1] = Call("get_weather", agent.topic)
                /\ Count(agent.calls, "get_weather") = 1
           ELSE ToolCalls(agent.calls) = <<Call("get_wikipedia_summary", agent.topic)>>

C6_Witness ==
    /\ running = "agent" /\ agent.pc = "returned" /\ ~agent.hasKey
    /\ ExtractTool(agent.reasoning_response) = "weather"
    /\ Count(agent.calls, "get_wikipedia_summary") = 1

\* C7: with the credential, react_agent goes to Wikipedia only after a 401 or
\* a 404 from the weather service; every other weather outcome is kept.
C7_FallbackOnlyOnAuthOrNotFound ==
    (AgentActed /\ Count(agent.calls, "get_weather") = 1)
        => (Count(agent.calls, "get_wikipedia_summary") = 1
               <=> agent.upstream \in {"s401", "s404"})

\* C8: a request naming a tool the server has not registered is answered by a
\* tool result marked isError, never by an HTTP-level failure.
C8_UnregisteredToolIsErrorResult ==
    (running = "server" /\ srv.handled > 0
     /\ NamedTool(srv.req) # NoValue /\ NamedTool(srv.req) \notin RegisteredTools)
        => /\ srv.resp.kind = "tool_result"
           /\ srv.resp.isError = "true"

\* a handler of the server raised while serving the last request
HandlerRaised ==
    /\ running = "server" /\ srv.handled > 0
    /\ RouteLookup(srv.req) = "weather_tool"
    /\ srv.req.body.field = "city" /\ Strip(srv.req.body.value) # ""
    /\ srv.req.key = srv.key /\ srv.owKey
    /\ srv.upstream \in {"timeout", "badbody"}

\* C9: a handler that raises yields a tool result marked isError for that
\* request, never a server error.
C9_HandlerFaultIsErrorResult ==
    HandlerRaised => /\ srv.resp.kind = "tool_result"
                     /\ srv.resp.isError = "true"

\* C10: every function that opens a session leaves with the session and the
\* stream released, whether it returns, raises or is cancelled.
C10_ReleasedOnEveryExit ==
    (running = "session" /\ sess.pc = "ended")
        => /\ sess.stream = "closed"
           /\ sess.session \in {"none", "closed"}

C10_Witness ==
    /\ running = "session" /\ sess.pc = "ended"
    /\ sess.opened = 1 /\ sess.pending = "CancelledError"
    /\ sess.done = <<"initialize">>

\* the messages with which a tool reports that it failed
ErrorPhrases ==
    {"Weather request timed out for", "Wikipedia Error",
     "Wikipedia request timed out for", "Could not find Wikipedia information for",
     "OpenWeather error", "Wikipedia lookup failed"}

IsErrorOutput(output) == \E ph \in ErrorPhrases : Contains(output, ph)

\* the label a prompt puts right before the tool output
OutputLabel(prompt, output) ==
    LET at == {i \in DOMAIN prompt :
                  i + Len(output) <= Len(prompt)
                  /\ SubSeq(prompt, i + 1, i + Len(output)) = output}
    IN prompt[CHOOSE i \in at : \A j \in at : i <= j]

\* the labels the prompts give an ordinary tool result
OrdinaryLabels == {"Tool result:", "Tool output:"}

\* C11: an error output handed to synthesis is labelled as an error in the
\* prompt: it never stands under the label of an ordinary tool result.
C11_ErrorOutputLabelled ==
    /\ (running = "agent" /\ agent.pc = "returned" /\ IsErrorOutput(agent.tool_output))
          => OutputLabel(agent.final_prompt, agent.tool_output) \notin OrdinaryLabels
    /\ (running = "client" /\ Len(cli.steps) = 3 /\ IsErrorOutput(cli.tool_resp.output))
          => OutputLabel(cli.final_prompt, cli.tool_resp.output) \notin OrdinaryLabels

\* the tool whose handler produced react_agent's tool output
LastTool(calls) ==
    IF ToolCalls(calls)[Len(ToolCalls(calls))].fn = "get_weather"
    THEN "weather" ELSE "wikipedia"

\* the tool a 'Tool used' value names
LabelledTool(tool_name) ==
    IF tool_name = "wikipedia (fallback)" THEN "wikipedia" ELSE tool_name

\* C12: the 'Tool used' value of the final prompt names the tool whose
\* handler produced the tool output.
C12_ToolUsedNamesHandler ==
    (running = "agent" /\ agent.pc = "returned")
        => /\ agent.final_prompt[3] = "Tool used:"
           /\ LabelledTool(agent.final_prompt[4]) = LastTool(agent.calls)

\* C13: when the synthesis completion fails, the answer given to the user
\* holds the raw tool output; the failure is not raised out of the pipeline.
C13_SynthesisFailureDegrades ==
    /\ (running = "agent" /\ agent.pc = "returned" /\ agent.final_answer # LlmAnswer)
          => \E i \in 0..(Len(agent.final_answer) - Len(agent.tool_output)) :
                SubSeq(agent.final_answer, i + 1, i + Len(agent.tool_output))
                    = [j \in DOMAIN agent.tool_output |->
                          Field("tool output", agent.tool_output[j])]
    /\ (running = "client" /\ Len(cli.steps) = 3) => cli.pc = "done"

\* C14: whatever fails, the user is shown an answer or the raw tool output,
\* never exception text or a traceback.
C14_NoExceptionTextShown ==
    /\ (running = "agent" /\ agent.pc = "returned")
          => ~Contains(agent.final_answer, ProseTok)
    /\ running = "client" => cli.pc # "crashed"

\* the last request went to one of the three tool endpoints
AtToolEndpoint ==
    /\ running = "server" /\ srv.handled > 0
    /\ RouteLookup(srv.req) \in {"weather_tool", "wiki_tool", "time_tool"}

\* C15: on every tool endpoint the key is checked exactly once, before any
\* other work: a missing or wrong key is answered 401 with no ToolResponse
\* and no upstream call, whatever the body; the right key is never answered 401.
C15_KeyCheckedFirst ==
    AtToolEndpoint =>
        /\ srv.resp.checks = 1
        /\ srv.req.key # srv.key =>
              /\ srv.resp.status = 401
              /\ srv.resp.kind # "tool_result"
              /\ srv.resp.upcalls = 0
        /\ srv.req.key = srv.key => srv.resp.status # 401

\* the last request was authorized and failed at tool level: an empty city
\* or topic, or an upstream error
ToolLevelFailure ==
    /\ AtToolEndpoint /\ srv.req.key = srv.key
    /\ \/ /\ RouteLookup(srv.req) = "weather_tool" /\ srv.req.body.field = "city"
          /\ \/ Strip(srv.req.body.value) = ""
             \/ srv.owKey /\ srv.upstream = "s500"
       \/ /\ RouteLookup(srv.req) = "wiki_tool" /\ srv.req.body.field = "topic"
          /\ \/ Strip(srv.req.body.value) = ""
             \/ srv.upstream # "ok"

\* C16: every tool-level failure is answered by a tool result explicitly
\* marked as an error.
C16_ToolFailureMarked ==
    ToolLevelFailure => /\ srv.resp.kind = "tool_result"
                        /\ srv.resp.isError = "true"

\* the Wikipedia texts react_agent can get for its topic
WikiTexts ==
    {get_wikipedia_summary(agent.topic, agent.package, w) :
        w \in WikiOutcomes(agent.package)}

\* a decision for another tool than weather is handled without a look at the
\* weather credential: by react_agent, by mcp_server, by mcp_client
OtherToolsUnaffected ==
    /\ (AgentActed /\ ExtractTool(agent.reasoning_response) # "weather")
          => /\ ToolCalls(agent.calls)
                  = <<Call("get_wikipedia_summary", agent.topic)>>
             /\ agent.tool_name = ExtractTool(agent.reasoning_response)
             /\ agent.tool_output \in WikiTexts
    /\ (running = "server" /\ srv.handled > 0
        /\ RouteLookup(srv.req) # "weather_tool")
          => srv.resp = ServerRespond(srv.req, srv.key, ~srv.owKey, srv.upstream)
    /\ (ClientActed /\ cli.decision.tool # "weather")
          => \E tr \in Transport, up \in ServerUpstream :
                /\ cli.tool_resp = call_mcp_tool(cli.decision, cli.urlPath, cli.key,
                                                 tr, cli.serverKey, cli.owKey, up)
                /\ cli.tool_resp = call_mcp_tool(cli.decision, cli.urlPath, cli.key,
                                                 tr, cli.serverKey, ~cli.owKey, up)

\* react_agent, weather decided without the credential: the answer is made
\* from a prompt that carries the Wikipedia text
AgentAnswersFromWikipedia ==
    (running = "agent" /\ agent.pc = "returned" /\ ~agent.hasKey
     /\ ExtractTool(agent.reasoning_response) = "weather")
        => /\ agent.final_answer # << >>
           /\ \E t \in WikiTexts :
                 /\ agent.tool_output = SubSeq(agent.tool_output, 1, 3) \o t
                 /\ agent.final_prompt
                      = SubSeq(agent.final_prompt, 1, 5) \o agent.tool_output

\* mcp_client got a weather result from a server without the weather credential
ClientWeatherNoCredential ==
    /\ ClientActed /\ cli.decision.tool = "weather" /\ ~cli.owKey
    /\ cli.tool_resp.raised = ""

\* C17: the missing weather credential changes nothing for a decision that
\* names another tool, and a weather decision is then always answered from
\* the secondary tool.
C17_WeatherAnsweredBySecondaryTool ==
    /\ OtherToolsUnaffected
    /\ AgentAnswersFromWikipedia
    /\ ClientWeatherNoCredential => cli.tool_resp.tool = "wikipedia"

\* react_agent put the Wikipedia text in the place of the weather tool's
Substituted ==
    /\ AgentActed /\ ExtractTool(agent.reasoning_response) = "weather"
    /\ LastTool(agent.calls) = "wikipedia"

\* the tool output starts with the notice that Wikipedia stands in for weather
OutputAnnotated ==
    /\ Len(agent.tool_output) > 3
    /\ agent.tool_output[1] \in {"Weather service unavailable", "Weather service error."}
    /\ agent.tool_output[2] = "general information about"
    /\ agent.tool_output[3] = agent.topic

\* C18 (amended): a substituted output always starts with the notice and is
\* passed so to synthesis; the tool label is "wikipedia (fallback)" after a
\* failed weather call and plain "wikipedia" when the credential is absent.
C18_SubstitutionAnnotatedInOutput ==
    Substituted =>
        /\ OutputAnnotated
        /\ agent.tool_name = IF agent.hasKey THEN "wikipedia (fallback)"
                             ELSE "wikipedia"
        /\ agent.pc = "returned" =>
              /\ agent.final_prompt[4] = agent.tool_name
              /\ agent.final_prompt
                   = SubSeq(agent.final_prompt, 1, 5) \o agent.tool_output

C18_Witness ==
    /\ Substituted /\ agent.pc = "returned" /\ ~agent.hasKey
    /\ OutputAnnotated /\ agent.final_prompt[4] = "wikipedia"

\* C18 as stated: both the output and the tool label of the final prompt show
\* the substitution.
C18_SubstitutionAnnotatedInLabel ==
    (Substituted /\ agent.pc = "returned") =>
        /\ OutputAnnotated
        /\ agent.final_prompt[4] = "wikipedia (fallback)"

\* the protocol state a session is in: 0 Disconnected, 1 Connecting (the
\* stream is being opened, the handshake is not done), 2 Initialized,
\* 3 Active (an exchange after the handshake is done), 4 Closing, 5 Closed
SessionRank ==
    CASE sess.pc = "off" -> 0
      [] sess.pc \in {"sse_enter", "session_enter"} -> 1
      [] sess.pc = "body" ->
            IF sess.done = << >> THEN 1 ELSE IF Len(sess.done) = 1 THEN 2 ELSE 3
      [] sess.pc \in {"session_exit", "sse_exit"} -> 4
      [] OTHER -> 5

\* an exchange completes only inside both open blocks, and the first one to
\* complete is the initialize handshake
ExchangeInOrder ==
    sess'.done # sess.done =>
        /\ sess.pc = "body" /\ sess.session = "open" /\ sess.stream = "open"
        /\ sess.pending = ""
        /\ sess.done = << >> => sess'.done = <<"initialize">>
        /\ sess.done # << >> => sess.done[1] = "initialize"

\* C19 (amended): a session never goes back to an earlier state and, while
\* nothing has raised, moves one state at a time; a step that raises or is
\* cancelled takes it straight to Closing, or to Closed when the stream never
\* opened; exchanges are issued only after initialize and before teardown.
C19_SessionNeverGoesBack ==
    [][(running = "session" /\ sess.pc # "ended") =>
          /\ SessionRank' >= SessionRank
          /\ sess'.pending = "" => SessionRank' <= SessionRank + 1
          /\ sess'.pending # "" => SessionRank' \in {SessionRank, 4, 5}
          /\ ExchangeInOrder]_vars

C19_Witness ==
    /\ running = "session" /\ sess.pc = "session_exit"
    /\ sess.done = << >> /\ sess.pending = "Exception"

\* C19 as stated: a session moves one state at a time, never skipping one.
C19_SessionNeverSkips ==
    [][(running = "session" /\ sess.pc # "ended") =>
          /\ SessionRank' \in {SessionRank, SessionRank + 1}
          /\ ExchangeInOrder]_vars

\* place of an exchange in what the session has completed, 0 when absent
Position(x) ==
    IF \E i \in DOMAIN sess.done : sess.done[i] = x
    THEN CHOOSE i \in DOMAIN sess.done : sess.done[i] = x
    ELSE 0

SessionCalledTool == running = "session" /\ Position("call_tool") > 0

\* C20: a tool is called only after list_tools of the session has completed,
\* with a name list_tools returned.
C20_CalledNameDiscovered ==
    SessionCalledTool =>
        /\ 0 < Position("list_tools")
        /\ Position("list_tools") < Position("call_tool")
        /\ sess.called \in sess.catalog

\* the tools react_agent can run: weather needs the credential
AgentAvailable == IF agent.hasKey THEN {"weather", "wikipedia"} ELSE {"wikipedia"}

\* the tools mcp_client's server has a handler for at the address the client uses
ClientAvailable ==
    {t \in ClientTools :
        RouteLookup(ToolRequest([NoDecision EXCEPT !.tool = t], cli.urlPath, cli.key))
            \notin {"404", "405"}}

\* C21: the tools offered in the decision prompt are exactly the tools
\* available to the client at that time.
C21_OfferedIsLiveCatalog ==
    /\ (running = "agent" /\ Len(agent.calls) >= 1) => agent.offered = AgentAvailable
    /\ (running = "client" /\ Len(cli.steps) >= 1) => cli.offered = ClientAvailable

\* C22: a failed exchange leaves the session open: after the server answers
\* an exchange with an error the session is still in its body with both
\* blocks open, and a tool result with isError = true in main raises nothing.
C22_ExchangeFailureKeepsSession ==
    running = "session" =>
        /\ sess.pending = "McpError" =>
              /\ sess.pc = "body"
              /\ sess.session = "open" /\ sess.stream = "open"
        /\ (sess.fn \in {"main", "main_new"} /\ sess.result.isError) =>
              sess.pending # "RuntimeError"

\* C23: main_new and _call_mcp_tool present a tool result as a success only
\* when isError is false, and for such a result they read structuredContent
\* when there is one and the text blocks otherwise.
C23_ErrorResultNeverSuccess ==
    (SessionCalledTool /\ sess.fn \in {"main_new", "_call_mcp_tool"}) =>
        /\ sess.report.as = "success" => ~sess.result.isError
        /\ ~sess.result.isError =>
              sess.report.from = IF sess.result.structured THEN "structured"
                                 ELSE IF sess.result.text THEN "text" ELSE "none"

\* C24: when react_agent goes to Wikipedia for a weather decision, Wikipedia
\* is called exactly once, with the topic the weather tool was or would have
\* been called with; whatever the lookup returns, an error text included, is
\* the tool output (after the notice), and no further tool is tried.
C24_FallbackSameTopicOnce ==
    Substituted =>
        /\ Count(agent.calls, "get_wikipedia_summary") = 1
        /\ ToolCalls(agent.calls)
             = IF agent.hasKey
               THEN <<Call("get_weather", agent.topic),
                      Call("get_wikipedia_summary", agent.topic)>>
               ELSE <<Call("get_wikipedia_summary", agent.topic)>>
        /\ \E t \in WikiTexts :
              agent.tool_output = SubSeq(agent.tool_output, 1, 3) \o t
        /\ agent.pc = "returned" =>
              agent.final_prompt = SubSeq(agent.final_prompt, 1, 5) \o agent.tool_output

C24_Witness ==
    /\ Substituted /\ agent.hasKey /\ agent.pc = "returned"
    /\ agent.topic # agent.query
    /\ Contains(agent.tool_output, "Wikipedia Error")

\* the text is one object of string fields between brace-free commentary
WrappedObject(text, a, b) ==
    /\ a >= 1 /\ b > a /\ b <= Len(text)
    /\ text[a] = LB /\ text[b] = RB
    /\ \A i \in DOMAIN text :
          IF i < a \/ i > b THEN text[i] = ProseTok
          ELSE i \in (a + 1)..(b - 1) => text[i].k \in {"reasoning", "tool", "topic"}

\* the value the object between a and b gives a key
ObjectValue(text, a, b, key) ==
    IF \E i \in (a + 1)..(b - 1) : text[i].k = key
    THEN text[CHOOSE i \in (a + 1)..(b - 1) : text[i].k = key].v
    ELSE NoValue

\* call_llm_for_decision has just received the completion's text
DecisionParsed ==
    running = "client" /\ cli.steps = <<"decision">> /\ cli.text # << >>

\* C25: a text made of one well-formed object between brace-free commentary
\* is decoded to that object; every other text ends in a decode failure that
\* call_llm_for_decision raises again.
C25_DecodesFirstToLastBrace ==
    DecisionParsed =>
        IF \E a, b \in DOMAIN cli.text : WrappedObject(cli.text, a, b)
        THEN \A a, b \in DOMAIN cli.text :
                WrappedObject(cli.text, a, b) =>
                    /\ cli.decision.raised = ""
                    /\ cli.decision.tool = ObjectValue(cli.text, a, b, "tool")
                    /\ cli.decision.topic = ObjectValue(cli.text, a, b, "topic")
        ELSE /\ cli.decision.raised \in {"ValueError", "JSONDecodeError"}
             /\ cli.pc = "crashed"

C25_Witness ==
    /\ DecisionParsed
    /\ cli.text = <<ProseTok, LB, Field("tool", "weather"), Field("topic", "Paris"),
                    RB, ProseTok>>
    /\ cli.decision.tool = "weather" /\ cli.decision.topic = "Paris"

\* one of the two short-lived wrappers of mcp_langchain_agent is running
WrapperRunning ==
    running = "session" /\ sess.fn \in {"_call_mcp_tool", "_read_mcp_resource"}

\* the one exchange a wrapper makes after the handshake
WrapperExchange == IF sess.fn = "_call_mcp_tool" THEN "call_tool" ELSE "read_resource"

\* C26: each call of _call_mcp_tool / _read_mcp_resource opens one session of
\* its own, does the handshake and exactly one exchange, and has closed the
\* session when it ends; nothing of a session is left for a later call.
C26_OwnSessionPerInvocation ==
    /\ WrapperRunning =>
          /\ sess.opened <= 1
          /\ sess.session = "open" => (sess.opened = 1 /\ sess.stream = "open")
          /\ sess.done \in {<< >>, <<"initialize">>, <<"initialize", WrapperExchange>>}
          /\ (sess.pc = "ended" /\ sess.pending \in {"", "RuntimeError"}) =>
                (sess.opened = 1 /\ sess.done = <<"initialize", WrapperExchange>>)
          /\ sess.pc = "ended" => (sess.session # "open" /\ sess.stream # "open")
    /\ running # "session" => sess = SessOff

C26_Witness ==
    /\ WrapperRunning /\ sess.fn = "_read_mcp_resource" /\ sess.pc = "ended"
    /\ sess.opened = 1 /\ sess.done = <<"initialize", "read_resource">>

\* C27: a query takes a bounded number of steps and every wait it makes for
\* an external call has a timeout.
C27_EveryWaitHasTimeout ==
    /\ running = "agent" =>
          /\ Len(agent.calls) <= 4
          /\ \A i \in DOMAIN agent.calls :
                WaitTimeout(agent.calls[i].fn, agent.package) # "none"
    /\ running = "client" =>
          /\ Len(cli.steps) <= 3
          /\ \A i \in DOMAIN cli.steps : StepTimeout(cli.steps[i]) # "none"

\* the handler mcp_server has for a tool name
HandlerOf(tool) ==
    CASE tool = "weather" -> "weather_tool"
      [] tool = "wikipedia" -> "wiki_tool"
      [] OTHER -> "time_tool"

\* both sides run with their defaults and a request for a known tool was sent
DefaultsRequestSent ==
    /\ ClientActed /\ cli.urlPath = DefaultUrlPath
    /\ cli.key = DefaultKey /\ cli.serverKey = DefaultKey
    /\ cli.decision.tool \in ClientTools /\ cli.transport = "ok"

\* C28: with the defaults of both sides, the request call_mcp_tool sends for
\* a known tool is routed to that tool's handler, passes the body validation
\* and passes the key check.
C28_DefaultsReachHandler ==
    DefaultsRequestSent =>
        /\ RouteLookup(cli.tool_resp.sent[1]) = HandlerOf(cli.decision.tool)
        /\ cli.resp.status \notin {401, 404, 405, 422}

\* C29: the main pipeline of mcp_client runs decision, tool call, synthesis
\* in that order, each at most once; synthesis runs only after call_mcp_tool
\* returned; when the decision or the tool step raises, nothing runs after
\* it and there is no answer.
C29_PipelineOrder ==
    running = "client" =>
        /\ cli.steps \in {<< >>, <<"decision">>, <<"decision", "tool">>,
                          <<"decision", "tool", "synthesis">>}
        /\ Len(cli.steps) >= 2 => cli.decision.raised = ""
        /\ Len(cli.steps) = 3 => cli.tool_resp.raised = ""
        /\ cli.decision.raised # "" =>
              (cli.steps = <<"decision">> /\ cli.pc = "crashed" /\ cli.final = << >>)
        /\ cli.tool_resp.raised # "" =>
              (cli.steps = <<"decision", "tool">> /\ cli.pc = "crashed"
               /\ cli.final = << >>)
        /\ cli.final # << >> =>
              (cli.steps = <<"decision", "tool", "synthesis">> /\ cli.pc = "done")

C29_Witness ==
    /\ running = "client" /\ cli.steps = <<"decision", "tool">>
    /\ cli.tool_resp.raised = "HTTPError" /\ cli.pc = "crashed"

\* the last request was an authorized, well-formed one to the weather or the
\* wikipedia endpoint
AuthorizedLookup ==
    /\ AtToolEndpoint /\ srv.req.key = srv.key
    /\ \/ RouteLookup(srv.req) = "weather_tool" /\ srv.req.body.field = "city"
       \/ RouteLookup(srv.req) = "wiki_tool" /\ srv.req.body.field = "topic"

\* C30: an authorized request with an empty or blank city / topic is answered
\* 400 with no upstream call; one with a value makes at most one upstream
\* call; every ToolResponse carries the name of the endpoint's tool.
C30_BlankRejectedBeforeUpstream ==
    AuthorizedLookup =>
        /\ srv.req.body.value \in {"", " "} =>
              /\ srv.resp.status = 400
              /\ srv.resp.kind # "tool_result"
              /\ srv.resp.upcalls = 0
        /\ srv.req.body.value \notin {"", " "} =>
              /\ srv.resp.status # 400
              /\ srv.resp.upcalls <= 1
        /\ srv.resp.kind = "tool_result" =>
              /\ srv.resp.status = 200
              /\ srv.resp.tool = NamedTool(srv.req)

C30_Witness ==
    /\ AuthorizedLookup /\ RouteLookup(srv.req) = "weather_tool"
    /\ srv.req.body.value = " " /\ srv.resp.status = 400

====
